---- MODULE Spec2Model ----
(***************************************************************************)
(* Model of espanso's configuration resolution, src/src/config/mod.rs:     *)
(* ConfigSet::load walks the user and package directories, loads and       *)
(* validates every .yml document, indexes them by name and parent, reduces *)
(* every root's tree with Configs::merge_config and injects the default    *)
(* rules with Configs::merge_default.                                      *)
(***************************************************************************)
EXTENDS Integers, Sequences, FiniteSets, TLC

(***************************************************************************)
(* Bounds of the explored inputs.                                          *)
(***************************************************************************)
\* Number of directory entries the two walks yield together.
MaxFiles == 2
\* Length of the rule list one document declares.
MaxMatches == 2

\* Number of documents the walk has registered when SpecReduce starts.
MaxRegistered == 3

\* Trigger strings the documents use.
Triggers == {"t1", "t2"}
\* Names a collected document may declare (besides declaring none).
DeclaredNames == {"a"}
\* Parents a collected document may declare (besides declaring none): the default
\* document's default name, a declared name, and the path of the first user file,
\* which is the name of that file when it declares none.
DeclaredParents == {"default", "a", "cfg/user/f1.yml"}
\* The directory arguments of ConfigSet::load.
config_dir == "cfg"
package_dir == "pkg"

(***************************************************************************)
(* Constants and serde defaults, mod.rs lines 39-58.                       *)
(***************************************************************************)
DEFAULT_CONFIG_FILE_NAME == "default.yml"
USER_CONFIGS_FOLDER_NAME == "user"

default_name == "default"
default_parent == "self"
default_filter_title == ""
default_disabled == FALSE
default_log_level == 0
default_ipc_server_port == 34982
default_use_system_agent == TRUE
default_config_caching_interval == 800
default_toggle_interval == 230
default_backspace_limit == 3
default_exclude_default_matches == FALSE
default_matches == << >>
\* KeyModifier::default() lives in crate::event; the spec calls it the platform default.
KeyModifier_default == "OFF"
\* BackendType::default() on linux.
BackendType_default == "Clipboard"

(***************************************************************************)
(* Paths.  Path::join and Path::to_str build the path string; the          *)
(* extension is the part after the last dot of the file name.              *)
(***************************************************************************)
join(dir, file) == dir \o "/" \o file

file_name(stem, ext) == IF ext = "" THEN stem ELSE stem \o "." \o ext

\* A path as the walk yields it: its string and its extension().
MkPath(dir, stem, ext) == [str |-> join(dir, file_name(stem, ext)), ext |-> ext]

specific_dir == join(config_dir, USER_CONFIGS_FOLDER_NAME)

default_file == [str |-> join(config_dir, DEFAULT_CONFIG_FILE_NAME), ext |-> "yml"]

(***************************************************************************)
(* Documents.  A YAML document is a mapping holding only the keys it       *)
(* declares; serde fills the others with the defaults above.               *)
(***************************************************************************)
Get(doc, key, def) == IF key \in DOMAIN doc THEN doc[key] ELSE def

\* serde_yaml::from_str into struct Configs (lines 60-115).
from_str(doc) ==
    [ name                    |-> Get(doc, "name", default_name),
      parent                  |-> Get(doc, "parent", default_parent),
      filter_title            |-> Get(doc, "filter_title", default_filter_title),
      disabled                |-> Get(doc, "disabled", default_disabled),
      log_level               |-> Get(doc, "log_level", default_log_level),
      ipc_server_port         |-> Get(doc, "ipc_server_port", default_ipc_server_port),
      use_system_agent        |-> Get(doc, "use_system_agent", default_use_system_agent),
      config_caching_interval |-> Get(doc, "config_caching_interval", default_config_caching_interval),
      toggle_key              |-> Get(doc, "toggle_key", KeyModifier_default),
      toggle_interval         |-> Get(doc, "toggle_interval", default_toggle_interval),
      backspace_limit         |-> Get(doc, "backspace_limit", default_backspace_limit),
      backend                 |-> Get(doc, "backend", BackendType_default),
      exclude_default_matches |-> Get(doc, "exclude_default_matches", default_exclude_default_matches),
      matches                 |-> Get(doc, "matches", default_matches) ]

\* ConfigLoadError values (lines 386-395).
Err(kind) == [kind |-> kind]
ErrAt(kind, path) == [kind |-> kind, path |-> path.str]

\* Configs::load_config (lines 178-199): a file is missing/unopenable, unreadable,
\* not valid YAML for Configs, or a document.
load_config(path, file) ==
    IF file.kind = "noopen" THEN [ok |-> FALSE, err |-> Err("FileNotFound")]
    ELSE IF file.kind = "noread" THEN [ok |-> FALSE, err |-> Err("UnableToReadFile")]
    ELSE IF file.kind = "badyaml" THEN [ok |-> FALSE, err |-> ErrAt("InvalidYAML", path)]
    ELSE [ok |-> TRUE, config |-> from_str(file.doc)]

\* validate_field! that assigns the comparison, so that a later matching field
\* sets the result back to true.
validate_field_last_wins(result, field, def_value) == field = def_value

\* validate_field! (lines 119-130): a mismatch sets the result to false.
validate_field(result, field, def_value) == IF field # def_value THEN FALSE ELSE result

\* validate_user_defined_config that leaves out the check of ipc_server_port.
validate_user_defined_config_six(self) ==
    LET r0 == TRUE
        r1 == validate_field(r0, self.config_caching_interval, default_config_caching_interval)
        r2 == validate_field(r1, self.log_level, default_log_level)
        r3 == validate_field(r2, self.toggle_key, KeyModifier_default)
        r4 == validate_field(r3, self.toggle_interval, default_toggle_interval)
        r5 == validate_field(r4, self.backspace_limit, default_backspace_limit)
        r7 == validate_field(r5, self.use_system_agent, default_use_system_agent)
    IN  r7

\* Configs::validate_user_defined_config (lines 138-150).
validate_user_defined_config(self) ==
    LET r0 == TRUE
        r1 == validate_field(r0, self.config_caching_interval, default_config_caching_interval)
        r2 == validate_field(r1, self.log_level, default_log_level)
        r3 == validate_field(r2, self.toggle_key, KeyModifier_default)
        r4 == validate_field(r3, self.toggle_interval, default_toggle_interval)
        r5 == validate_field(r4, self.backspace_limit, default_backspace_limit)
        r6 == validate_field(r5, self.ipc_server_port, default_ipc_server_port)
        r7 == validate_field(r6, self.use_system_agent, default_use_system_agent)
    IN  r7

\* The error! call of validate_field! (lines 121-127): a mismatch logs the name
\* of the field.
validate_field_error(log, field_name, field, def_value) ==
    IF field # def_value THEN Append(log, field_name) ELSE log

\* The names validate_user_defined_config logs, in order (lines 141-147).
validation_errors(self) ==
    LET l0 == << >>
        l1 == validate_field_error(l0, "config_caching_interval",
                                   self.config_caching_interval, default_config_caching_interval)
        l2 == validate_field_error(l1, "log_level", self.log_level, default_log_level)
        l3 == validate_field_error(l2, "toggle_key", self.toggle_key, KeyModifier_default)
        l4 == validate_field_error(l3, "toggle_interval", self.toggle_interval, default_toggle_interval)
        l5 == validate_field_error(l4, "backspace_limit", self.backspace_limit, default_backspace_limit)
        l6 == validate_field_error(l5, "ipc_server_port", self.ipc_server_port, default_ipc_server_port)
        l7 == validate_field_error(l6, "use_system_agent", self.use_system_agent, default_use_system_agent)
    IN  l7

(***************************************************************************)
(* Merging, lines 201-225.                                                 *)
(***************************************************************************)
\* The HashSet of the triggers of a rule list.
trigger_set(matches) == {matches[i].trigger : i \in 1..Len(matches)}

\* The rules of a list whose trigger is not in the set, in order.
filter_not_in(matches, set) ==
    LET keep(m) == m.trigger \notin set IN SelectSeq(matches, keep)

\* merge_config with the priority reversed: self's rules first, then new_config's
\* rules whose trigger self does not define.
merge_config_parent_wins(self, new_config) ==
    [self EXCEPT !.matches =
        self.matches \o filter_not_in(new_config.matches, trigger_set(self.matches))]

\* merge_config that keeps every rule of self.
merge_config_no_filter(self, new_config) ==
    [self EXCEPT !.matches = new_config.matches \o self.matches]

\* merge_config that drops the rules of self.
merge_config_replace(self, new_config) ==
    [self EXCEPT !.matches = new_config.matches]

\* merge_config that keeps new_config and gives it the merged list.
merge_config_adopt(self, new_config) ==
    LET merged_matches == new_config.matches
        parent_matches == filter_not_in(self.matches, trigger_set(merged_matches))
    IN  [new_config EXCEPT !.matches = merged_matches \o parent_matches]

\* Configs::merge_config (lines 201-213): new_config's rules first, then self's
\* rules whose trigger new_config does not define.
merge_config(self, new_config) ==
    LET merged_matches == new_config.matches
        parent_matches == filter_not_in(self.matches, trigger_set(merged_matches))
    IN  [self EXCEPT !.matches = merged_matches \o parent_matches]

\* merge_default that appends every rule of the default.
merge_default_no_filter(self, default) ==
    [self EXCEPT !.matches = self.matches \o default.matches]

\* Configs::merge_default (lines 215-225): self's rules first, then the default's
\* rules whose trigger self does not define.
merge_default(self, default) ==
    LET kept == filter_not_in(default.matches, trigger_set(self.matches))
    IN  [self EXCEPT !.matches = self.matches \o kept]

(***************************************************************************)
(* ConfigSet::reduce_configs, lines 328-339.  The recursion has no cycle   *)
(* guard; a call chain longer than the number of registered children       *)
(* repeats a child and never ends, which the depth argument reports.       *)
(***************************************************************************)
\* push_child that puts the new child before the ones already registered.
push_child_front(map, parent, config) ==
    IF parent \in DOMAIN map
    THEN [map EXCEPT ![parent] = <<config>> \o @]
    ELSE map @@ (parent :> <<config>>)

\* push_child that files every child under the default's name, whatever parent
\* it declares.
push_child_under_default(map, parent, config) ==
    IF default_name \in DOMAIN map
    THEN [map EXCEPT ![default_name] = Append(@, config)]
    ELSE map @@ (default_name :> <<config>>)

\* children_map.entry(parent).or_default().push(config), lines 296-297.
push_child(map, parent, config) ==
    IF parent \in DOMAIN map
    THEN [map EXCEPT ![parent] = Append(@, config)]
    ELSE map @@ (parent :> <<config>>)

\* Number of configs registered in children_map.
children_count(map) ==
    LET RECURSIVE sum(_)
        sum(keys) == IF keys = {} THEN 0
                     ELSE LET k == CHOOSE k \in keys : TRUE
                          IN  Len(map[k]) + sum(keys \ {k})
    IN  sum(DOMAIN map)

RECURSIVE reduce_depth(_, _, _)
RECURSIVE merge_children(_, _, _, _, _)
\* The for loop of lines 331-334 over the first k children of `children`: every
\* child is reduced, then merged into the target as the previous merges left it.
merge_children(target, children, k, map, depth) ==
    IF k = 0 THEN [ok |-> TRUE, config |-> target]
    ELSE LET before == merge_children(target, children, k - 1, map, depth)
         IN  IF ~before.ok THEN before
             ELSE LET child == reduce_depth(children[k], map, depth - 1)
                  IN  IF ~child.ok THEN child
                      ELSE [ok |-> TRUE, config |-> merge_config(before.config, child.config)]

\* reduce_configs that stops at a child already on the call chain instead of
\* recursing into it.
reduce_depth_visited(target, map, depth) ==
    IF depth = 0 THEN [ok |-> TRUE, config |-> target]
    ELSE IF target.name \in DOMAIN map
         THEN merge_children(target, map[target.name], Len(map[target.name]), map, depth)
         ELSE [ok |-> TRUE, config |-> target]

\* The body of reduce_configs with `depth` nested calls left; the result is
\* [ok |-> TRUE, config |-> c], or [ok |-> FALSE] when the recursion does not end.
reduce_depth(target, map, depth) ==
    IF depth = 0 THEN [ok |-> FALSE]
    ELSE IF target.name \in DOMAIN map
         THEN merge_children(target, map[target.name], Len(map[target.name]), map, depth)
         ELSE [ok |-> TRUE, config |-> target]

\* ConfigSet::reduce_configs (lines 328-339).
reduce_configs(target, map) == reduce_depth(target, map, children_count(map) + 1)

(***************************************************************************)
(* The files the load can find.                                            *)
(***************************************************************************)
\* A document's rule list: the triggers it declares; every rule's replacement
\* names the declaring file, so a rule tells which document authored it.
rules_of(path, triggers) ==
    [i \in 1..Len(triggers) |-> [trigger |-> triggers[i], replace |-> path.str]]

\* The trigger lists a document may declare: up to MaxMatches rules, all but the
\* last for "t1", so that lists overlap, are disjoint, or repeat a trigger.
TriggerLists ==
    {ts \in UNION {[1..n -> Triggers] : n \in 0..MaxMatches} :
        \A i \in 1..(Len(ts) - 1) : ts[i] = "t1"}

\* A mapping with the key when it is declared, the empty mapping otherwise.
Field(key, declared, value) == IF declared THEN (key :> value) ELSE << >>

\* Documents that keep to the fields a user-defined config may set: roots, which
\* may exclude the default's rules (the flag is read on roots only, line 317),
\* and children.
UserDocs(path) ==
    { Field("name", n # "", n) @@ Field("exclude_default_matches", x, TRUE)
        @@ Field("matches", ts # << >>, rules_of(path, ts)) :
      n \in DeclaredNames \cup {""}, x \in BOOLEAN, ts \in TriggerLists }
    \cup
    { Field("name", n # "", n) @@ ("parent" :> p)
        @@ Field("matches", ts # << >>, rules_of(path, ts)) :
      n \in DeclaredNames \cup {""}, p \in DeclaredParents, ts \in TriggerLists }

\* Documents that set a reserved field to a non-default value.
ReservedDocs(path) ==
    { ("config_caching_interval" :> 10000),
      ("log_level" :> 1),
      ("toggle_key" :> "CTRL"),
      ("toggle_interval" :> 500),
      ("backspace_limit" :> 5),
      ("ipc_server_port" :> 34983),
      ("use_system_agent" :> FALSE),
      ("name" :> "a") @@ ("log_level" :> 1) @@ ("backspace_limit" :> 5)
        @@ ("matches" :> rules_of(path, <<"t1">>)) }

\* Files load_config fails on.
BrokenFiles == { [kind |-> "noopen"], [kind |-> "noread"], [kind |-> "badyaml"] }

Yaml(doc) == [kind |-> "yaml", doc |-> doc]

\* What default.yml may hold: it may name itself, and it may declare a parent
\* and set reserved fields.
DefaultDocs ==
    { Field("name", n # "", n) @@ Field("matches", ts # << >>, rules_of(default_file, ts)) :
      n \in DeclaredNames \cup {""}, ts \in TriggerLists }
    \cup
    { ("parent" :> "a") @@ ("log_level" :> 1) @@ ("exclude_default_matches" :> TRUE)
        @@ ("matches" :> rules_of(default_file, <<"t1">>)) }

\* The directory of a walk.
walk_dir(t) == IF t = "user" THEN specific_dir ELSE package_dir

\* Items that are not .yml files: a directory, and files with other extensions
\* holding what would be a document, an invalid document or no YAML at all.
OtherEntries(t, stem) ==
    { [tree |-> t, ok |-> TRUE, path |-> MkPath(walk_dir(t), stem, ""),
       file |-> [kind |-> "noread"]],
      [tree |-> t, ok |-> TRUE, path |-> MkPath(walk_dir(t), stem, "txt"),
       file |-> [kind |-> "badyaml"]],
      [tree |-> t, ok |-> TRUE, path |-> MkPath(walk_dir(t), stem, "txt"),
       file |-> Yaml(("log_level" :> 1))],
      [tree |-> t, ok |-> TRUE, path |-> MkPath(walk_dir(t), stem, "YML"),
       file |-> Yaml(("name" :> "a")
                     @@ ("matches" :> rules_of(MkPath(walk_dir(t), stem, "YML"), <<"t1">>)))] }

\* The i-th item of the walks: an error, an item that is no .yml file, or a
\* .yml file.
Entries(t, i) ==
    LET stem == "f" \o ToString(i)
        path == MkPath(walk_dir(t), stem, "yml")
    IN  { [tree |-> t, ok |-> FALSE, path |-> MkPath(walk_dir(t), stem, ""),
           file |-> [kind |-> "noopen"]] }
        \cup OtherEntries(t, stem)
        \cup { [tree |-> t, ok |-> TRUE, path |-> path, file |-> f] :
               f \in BrokenFiles \cup {Yaml(d) : d \in ReservedDocs(path)}
                                 \cup {Yaml(d) : d \in UserDocs(path)} }

NoEntry == [tree |-> "none", ok |-> FALSE, path |-> default_file, file |-> [kind |-> "noopen"]]

(***************************************************************************)
(* State of one call of ConfigSet::load.                                   *)
(***************************************************************************)
VARIABLES
    fs,            \* what the two directory arguments hold on disk
    pc,            \* where the call is: "start", "scan", "reduce", "inject", "done", "overflow"
    tree,          \* the walk target_files is being read from: "user", then "package"
    idx,           \* number of items of target_files consumed
    entry,         \* the item the for loop of line 266 holds
    loaded,        \* the documents registered so far: path, document, resolved name
    name_set,      \* line 261
    children_map,  \* line 262
    root_configs,  \* line 263
    configs,       \* line 305
    result         \* what load returns: none yet, Ok(ConfigSet) or Err(error)

vars == <<fs, pc, tree, idx, entry, loaded, name_set, children_map, root_configs, configs, result>>

NoResult == [kind |-> "none"]
Ok(default, specific) == [kind |-> "Ok", default |-> default, specific |-> specific]
Fail(err) == [kind |-> "Err", err |-> err]

\* The directory layouts: the base path is missing, a plain file or a directory;
\* default.yml is missing or is one of the files load_config tells apart; the
\* user subdirectory and the package directory exist or not.  Nothing lies
\* below a base path that is no directory.
Layouts ==
    { l \in [base : {"missing", "file", "dir"},
              default : {"noopen", "noread", "badyaml", "yaml"},
              user : BOOLEAN, package : BOOLEAN] :
        l.base # "dir" => (l.default = "noopen" /\ ~l.user) }

Init ==
    /\ fs \in Layouts
    /\ pc = "start"
    /\ tree = "user"
    /\ idx = 0
    /\ entry = NoEntry
    /\ loaded = << >>
    /\ name_set = {}
    /\ children_map = << >>
    /\ root_configs = << >>
    /\ configs = << >>
    /\ result = NoResult

\* Path::is_dir taken for Path::exists.
is_dir_or_file(layout) == layout.base \in {"dir", "file"}

\* Line 236: config_dir.is_dir().
is_dir(layout) == layout.base = "dir"

\* Lines 236-238: the base path is not a directory.
BadConfigDir ==
    /\ pc = "start"
    /\ ~is_dir(fs)
    /\ pc' = "done"
    /\ result' = Fail(Err("InvalidConfigDirectory"))
    /\ UNCHANGED <<fs, tree, idx, entry, loaded, name_set, children_map, root_configs, configs>>

\* Lines 241-242: default.yml cannot be loaded.
DefaultFails ==
    /\ pc = "start"
    /\ is_dir(fs)
    /\ [kind |-> fs.default] \in BrokenFiles
    /\ LET res == load_config(default_file, [kind |-> fs.default])
       IN  /\ ~res.ok
           /\ result' = Fail(res.err)
    /\ pc' = "done"
    /\ UNCHANGED <<fs, tree, idx, entry, loaded, name_set, children_map, root_configs, configs>>

\* Lines 241-264: default.yml is loaded and becomes the first root.
DefaultLoaded ==
    /\ pc = "start"
    /\ is_dir(fs)
    /\ fs.default = "yaml"
    /\ \E d \in DefaultDocs :
          LET res == load_config(default_file, Yaml(d))
          IN  /\ res.ok
              /\ root_configs' = <<res.config>>
    /\ pc' = "scan"
    /\ UNCHANGED <<fs, tree, idx, entry, loaded, name_set, children_map, configs, result>>

\* The extension test made without regard to case.
is_config_file_any_case(path) == path.ext \in {"yml", "YML"}

\* Line 271: the extension test.
is_config_file(path) == path.ext = "yml"

\* resolve_name that leaves the name as parsed.
resolve_name_never(config, path) == config

\* Lines 283-285: the name of a collected document.
resolve_name(config, path) ==
    IF config.name = "default" THEN [config EXCEPT !.name = path.str] ELSE config

\* Line 291 left out: the name is not recorded.
insert_name_forgotten(set, name) == set

\* Line 291: name_set.insert(config.name.clone()).
insert_name(set, name) == set \cup {name}

\* root_configs.push that puts the new root right after the default.
push_root_front(roots, config) == <<roots[1], config>> \o SubSeq(roots, 2, Len(roots))

\* Line 294: root_configs.push(config).
push_root(roots, config) == Append(roots, config)

\* The record kept of a registered document.
loaded_doc(e, name) == [path |-> e.path.str, tree |-> e.tree, doc |-> e.file.doc, name |-> name]

\* Lines 248-257: the walks target_files is made of, user before package; a
\* directory that does not exist adds nothing.
target_trees(layout) ==
    (IF layout.user THEN {"user"} ELSE {}) \cup (IF layout.package THEN {"package"} ELSE {})

\* The items target_files can hold next: the user walk comes before the package walk.
Candidates ==
    UNION {Entries(t, idx + 1) :
           t \in target_trees(fs) \cap (IF tree = "user" THEN {"user", "package"} ELSE {"package"})}

\* The for loop of line 266 has an item left.
Scanning == pc = "scan" /\ idx < MaxFiles

\* The loop takes the item.
NextEntry(e) ==
    /\ idx' = idx + 1
    /\ tree' = e.tree
    /\ entry' = e

\* Lines 299-301: the walk could not read the item; a warning, and the loop goes on.
WalkError ==
    /\ Scanning
    /\ \E e \in Candidates :
        /\ NextEntry(e)
        /\ ~e.ok
        /\ UNCHANGED <<fs, pc, loaded, name_set, children_map, root_configs, configs, result>>

\* Lines 270-273: not a .yml file.
SkipOther ==
    /\ Scanning
    /\ \E e \in Candidates :
        /\ NextEntry(e)
        /\ e.ok
        /\ ~is_config_file(e.path)
        /\ UNCHANGED <<fs, pc, loaded, name_set, children_map, root_configs, configs, result>>

\* Line 275: load_config fails and load returns its error.
LoadFails ==
    /\ Scanning
    /\ \E e \in Candidates :
        /\ NextEntry(e)
        /\ e.ok
        /\ is_config_file(e.path)
        /\ ~load_config(e.path, e.file).ok
        /\ result' = Fail(load_config(e.path, e.file).err)
        /\ pc' = "done"
        /\ UNCHANGED <<fs, loaded, name_set, children_map, root_configs, configs>>

\* Lines 277-280: the document sets a reserved field.
ReservedField ==
    /\ Scanning
    /\ \E e \in Candidates :
        /\ NextEntry(e)
        /\ e.ok
        /\ is_config_file(e.path)
        /\ load_config(e.path, e.file).ok
        /\ ~validate_user_defined_config(load_config(e.path, e.file).config)
        /\ result' = Fail(ErrAt("InvalidParameter", e.path))
        /\ pc' = "done"
        /\ UNCHANGED <<fs, loaded, name_set, children_map, root_configs, configs>>

\* Accepted without the reserved-field check of lines 277-280.
Accepted_unvalidated(e) ==
    /\ e.ok
    /\ is_config_file(e.path)
    /\ load_config(e.path, e.file).ok

\* An item that passed lines 270-280.
Accepted(e) ==
    /\ e.ok
    /\ is_config_file(e.path)
    /\ load_config(e.path, e.file).ok
    /\ validate_user_defined_config(load_config(e.path, e.file).config)

\* The document of an accepted item, with its name resolved.
config_of(e) == resolve_name(load_config(e.path, e.file).config, e.path)

\* Lines 287-289: the name is already taken.
DuplicateName ==
    /\ Scanning
    /\ \E e \in Candidates :
        /\ NextEntry(e)
        /\ Accepted(e)
        /\ config_of(e).name \in name_set
        /\ result' = Fail(ErrAt("NameDuplicate", e.path))
        /\ pc' = "done"
        /\ UNCHANGED <<fs, loaded, name_set, children_map, root_configs, configs>>

\* Lines 291-294: a document without parent is a root.
RegisterRoot ==
    /\ Scanning
    /\ \E e \in Candidates :
        /\ NextEntry(e)
        /\ Accepted(e)
        /\ config_of(e).name \notin name_set
        /\ config_of(e).parent = "self"
        /\ name_set' = insert_name(name_set, config_of(e).name)
        /\ root_configs' = push_root(root_configs, config_of(e))
        /\ loaded' = Append(loaded, loaded_doc(e, config_of(e).name))
        /\ UNCHANGED <<fs, pc, children_map, configs, result>>

\* Lines 291-298: a document with a parent joins its parent's children.
RegisterChild ==
    /\ Scanning
    /\ \E e \in Candidates :
        /\ NextEntry(e)
        /\ Accepted(e)
        /\ config_of(e).name \notin name_set
        /\ config_of(e).parent # "self"
        /\ name_set' = insert_name(name_set, config_of(e).name)
        /\ children_map' = push_child(children_map, config_of(e).parent, config_of(e))
        /\ loaded' = Append(loaded, loaded_doc(e, config_of(e).name))
        /\ UNCHANGED <<fs, pc, root_configs, configs, result>>

\* Line 302: target_files is exhausted.
EndOfWalk ==
    /\ pc = "scan"
    /\ pc' = "reduce"
    /\ UNCHANGED <<fs, tree, idx, entry, loaded, name_set, children_map, root_configs, configs, result>>

\* reduce_roots that also merges the last root's reduced tree into every root.
reduce_roots_shared(roots, map) ==
    [i \in 1..Len(roots) |->
        LET own == reduce_configs(roots[i], map)
            last == reduce_configs(roots[Len(roots)], map)
        IN  IF own.ok /\ last.ok /\ i # Len(roots)
            THEN [ok |-> TRUE, config |-> merge_config(own.config, last.config)]
            ELSE own]

\* Lines 304-309 on all roots; the results, or none when a recursion does not end.
reduce_roots(roots, map) == [i \in 1..Len(roots) |-> reduce_configs(roots[i], map)]

\* Lines 304-309: every root's tree is reduced.
ReduceRoots ==
    /\ pc = "reduce"
    /\ \A i \in 1..Len(root_configs) : reduce_roots(root_configs, children_map)[i].ok
    /\ configs' = [i \in 1..Len(root_configs) |->
                      reduce_roots(root_configs, children_map)[i].config]
    /\ pc' = "inject"
    /\ UNCHANGED <<fs, tree, idx, entry, loaded, name_set, children_map, root_configs, result>>

\* Lines 304-309 when a parent cycle hangs below a root: reduce_configs recurses
\* without end and load never returns.
ReduceOverflows ==
    /\ pc = "reduce"
    /\ \E i \in 1..Len(root_configs) : ~reduce_roots(root_configs, children_map)[i].ok
    /\ pc' = "overflow"
    /\ UNCHANGED <<fs, tree, idx, entry, loaded, name_set, children_map, root_configs, configs, result>>

\* inject_default that ignores exclude_default_matches.
inject_default_always(config, default) == merge_default(config, default)

\* Lines 315-320: the default's rules are added to a specific config unless it
\* excludes them.
inject_default(config, default) ==
    IF ~config.exclude_default_matches THEN merge_default(config, default) ELSE config

\* Lines 311-325: default and specific are separated, the default is injected,
\* and load returns the ConfigSet.
SeparateAndInject ==
    /\ pc = "inject"
    /\ LET default == configs[1]
           specific == SubSeq(configs, 2, Len(configs))
       IN  result' = Ok(default, [i \in 1..Len(specific) |-> inject_default(specific[i], default)])
    /\ pc' = "done"
    /\ UNCHANGED <<fs, tree, idx, entry, loaded, name_set, children_map, root_configs, configs>>

Next ==
    \/ BadConfigDir
    \/ DefaultFails
    \/ DefaultLoaded
    \/ WalkError
    \/ SkipOther
    \/ LoadFails
    \/ ReservedField
    \/ DuplicateName
    \/ RegisterRoot
    \/ RegisterChild
    \/ EndOfWalk
    \/ ReduceRoots
    \/ ReduceOverflows
    \/ SeparateAndInject

Spec == Init /\ [][Next]_vars

(***************************************************************************)
(* The documents of a load and their trees, for stating the properties.    *)
(* Document 0 is default.yml, document k > 0 the k-th registered one.      *)
(***************************************************************************)
DocIds == 0..Len(loaded)

\* The Configs of a document as it was registered.
doc_config(k) ==
    IF k = 0 THEN root_configs[1]
    ELSE [from_str(loaded[k].doc) EXCEPT !.name = loaded[k].name]

doc_path(k) == IF k = 0 THEN default_file.str ELSE loaded[k].path

\* The document's own rules.
doc_rules(k) == doc_config(k).matches

\* The rules of a list, as a set.
rule_set(matches) == {matches[i] : i \in 1..Len(matches)}

\* The rules of a list for a trigger, in order.
rules_for(matches, t) == LET is_t(m) == m.trigger = t IN SelectSeq(matches, is_t)

\* c is registered in children_map under the name of p.
child_of(c, p) ==
    /\ c # 0
    /\ doc_config(c).parent # "self"
    /\ doc_config(c).parent = doc_config(p).name

\* The documents below a: its children, their children, and so on.
descendants(a) ==
    LET RECURSIVE grow(_, _)
        grow(S, n) ==
            IF n = 0 THEN S
            ELSE grow(S \cup {c \in DocIds : \E q \in S : child_of(c, q)}, n - 1)
    IN  grow({c \in DocIds : child_of(c, a)}, Len(loaded))

\* The ids of the roots, in the order of root_configs.
root_ids ==
    LET RECURSIVE upto(_)
        upto(k) == IF k = 0 THEN <<0>>
                   ELSE IF doc_config(k).parent = "self" THEN Append(upto(k - 1), k)
                   ELSE upto(k - 1)
    IN  upto(Len(loaded))

\* The documents of the tree of the i-th root.
tree_docs(i) == {root_ids[i]} \cup descendants(root_ids[i])

Returned == pc = "done" /\ result.kind = "Ok"

\* The config load returns for the i-th root.
resolved(i) == IF i = 1 THEN result.default ELSE result.specific[i - 1]

(***************************************************************************)
(* C1.  Trigger override.                                                  *)
(***************************************************************************)
\* The descendants and the declared triggers of every document.
desc_map == [a \in DocIds |-> descendants(a)]
triggers_map == [k \in DocIds |-> trigger_set(doc_rules(k))]

\* C1 as claimed: when a document and one of its ancestors both define a rule
\* for trigger t, the resolved root has exactly one rule for t and it is the
\* document's.
C1_Original ==
    Returned =>
        LET desc == desc_map
            trig == triggers_map
        IN  \A i \in 1..Len(root_configs) :
            \A a \in {root_ids[i]} \cup desc[root_ids[i]] :
            \A d \in desc[a] :
            \A t \in trig[a] \cap trig[d] :
                /\ Len(rules_for(resolved(i).matches, t)) = 1
                /\ rules_for(resolved(i).matches, t)[1].replace = doc_path(d)

\* C1 as amended: when a document and one of its ancestors both define a rule
\* for trigger t, the resolved root has a rule for t and none of its rules for t
\* is the ancestor's; when no third document of the tree defines t and the
\* document defines t once, the resolved root has exactly one rule for t and it
\* is the document's.
C1_TriggerOverride ==
    Returned =>
        LET desc == desc_map
            trig == triggers_map
        IN  \A i \in 1..Len(root_configs) :
            \A a \in {root_ids[i]} \cup desc[root_ids[i]] :
            \A d \in desc[a] :
            \A t \in trig[a] \cap trig[d] :
                LET kept == rules_for(resolved(i).matches, t)
                IN  /\ Len(kept) >= 1
                    /\ \A j \in 1..Len(kept) : kept[j].replace # doc_path(a)
                    /\ ( /\ \A o \in ({root_ids[i]} \cup desc[root_ids[i]]) \ {a, d} :
                                t \notin trig[o]
                         /\ Len(rules_for(doc_rules(d), t)) = 1 )
                       => /\ Len(kept) = 1
                          /\ kept[1].replace = doc_path(d)

\* A grandchild of the default document overrode the default's rule for "t1",
\* which the child between them does not define.
C1_Witness ==
    /\ Returned
    /\ Len(loaded) = 2
    /\ child_of(1, 0) /\ child_of(2, 1)
    /\ "t1" \in trigger_set(doc_rules(0)) \cap trigger_set(doc_rules(2))
    /\ "t1" \notin trigger_set(doc_rules(1))
    /\ Len(rules_for(result.default.matches, "t1")) = 1
    /\ rules_for(result.default.matches, "t1")[1].replace = doc_path(2)

(***************************************************************************)
(* C2.  Non-overlap.                                                       *)
(***************************************************************************)
\* The children registered under the name of document k, in registration order.
children_of(k) ==
    IF doc_config(k).name \in DOMAIN children_map
    THEN children_map[doc_config(k).name] ELSE << >>

\* The j-th merge of the loop of lines 331-334 run on document k: the receiver
\* as the previous merges left it, the reduced child merged in, and the outcome.
merge_step(k, j) ==
    LET depth == children_count(children_map) + 1
    IN  [ receiver |-> merge_children(doc_config(k), children_of(k), j - 1,
                                      children_map, depth).config,
          incoming |-> reduce_configs(children_of(k)[j], children_map).config,
          outcome  |-> merge_children(doc_config(k), children_of(k), j,
                                      children_map, depth).config ]

\* The documents reduce_configs was run on: the roots and all below them.
reduced_docs == UNION {tree_docs(i) : i \in 1..Len(root_configs)}

\* C2: in every merge_config step of a reduction, at any depth, when the child
\* merged in and the receiver have disjoint trigger sets, the outcome contains
\* every rule of both and its length is the sum of both lengths.
C2_NonOverlap ==
    Returned =>
        \A k \in reduced_docs : \A j \in 1..Len(children_of(k)) :
            LET step == merge_step(k, j)
            IN  trigger_set(step.receiver.matches) \cap trigger_set(step.incoming.matches) = {}
                => /\ Len(step.outcome.matches)
                        = Len(step.incoming.matches) + Len(step.receiver.matches)
                   /\ rule_set(step.receiver.matches) \subseteq rule_set(step.outcome.matches)
                   /\ rule_set(step.incoming.matches) \subseteq rule_set(step.outcome.matches)

\* A grandchild with "t2" was merged into a child with "t1" and both rules
\* reached the default config.
C2_Witness ==
    /\ Returned
    /\ Len(loaded) = 2
    /\ child_of(1, 0) /\ child_of(2, 1)
    /\ trigger_set(doc_rules(1)) = {"t1"}
    /\ trigger_set(doc_rules(2)) = {"t2"}
    /\ Len(merge_step(1, 1).outcome.matches) = 2
    /\ Len(result.default.matches) = Len(doc_rules(0)) + 2

(***************************************************************************)
(* C3.  Default injection.                                                 *)
(***************************************************************************)
\* C3: a specific config that does not exclude the default's rules holds the
\* rules of its own reduced tree, then exactly the resolved default's rules
\* whose trigger its reduced tree does not define.
C3_DefaultInjection ==
    Returned =>
        /\ result.default = configs[1]
        /\ \A i \in 1..Len(result.specific) :
              ~configs[i + 1].exclude_default_matches =>
                  LET own == configs[i + 1].matches
                      all == result.specific[i].matches
                      new(m) == m.trigger \notin trigger_set(own)
                  IN  /\ Len(all) >= Len(own)
                      /\ SubSeq(all, 1, Len(own)) = own
                      /\ SubSeq(all, Len(own) + 1, Len(all))
                            = SelectSeq(result.default.matches, new)
                      /\ \A t \in trigger_set(own) : rules_for(all, t) = rules_for(own, t)

\* A specific config kept its own rule for "t1" and got the default's rule for
\* "t2", the default defining both.
C3_Witness ==
    /\ Returned
    /\ Len(result.specific) >= 1
    /\ ~result.specific[1].exclude_default_matches
    /\ trigger_set(configs[2].matches) = {"t1"}
    /\ trigger_set(result.default.matches) = {"t1", "t2"}
    /\ Len(result.specific[1].matches) = Len(configs[2].matches) + 1
    /\ result.specific[1].matches[Len(result.specific[1].matches)].replace = default_file.str

(***************************************************************************)
(* C4.  Exclusion.                                                         *)
(***************************************************************************)
\* The rules the documents of the tree of the i-th root declare.
authored_in_tree(i) == UNION {rule_set(doc_rules(k)) : k \in tree_docs(i)}

\* C4: a specific config with exclude_default_matches holds only rules declared
\* by its root document or by the documents below it.
C4_Exclusion ==
    Returned =>
        \A i \in 2..Len(root_configs) :
            result.specific[i - 1].exclude_default_matches =>
                rule_set(result.specific[i - 1].matches) \subseteq authored_in_tree(i)

\* A specific config excluded the rules of a default that has some, and kept the
\* rule of its own child.
C4_Witness ==
    /\ Returned
    /\ Len(loaded) = 2
    /\ Len(result.specific) = 1
    /\ result.specific[1].exclude_default_matches
    /\ child_of(2, 1)
    /\ result.default.matches # << >>
    /\ rule_set(doc_rules(2)) # {}
    /\ rule_set(doc_rules(2)) \subseteq rule_set(result.specific[1].matches)

(***************************************************************************)
(* C5.  Root-only fields.                                                  *)
(***************************************************************************)
\* The reserved fields and their defaults.
reserved_defaults ==
    ("config_caching_interval" :> default_config_caching_interval)
    @@ ("log_level" :> default_log_level)
    @@ ("toggle_key" :> KeyModifier_default)
    @@ ("toggle_interval" :> default_toggle_interval)
    @@ ("backspace_limit" :> default_backspace_limit)
    @@ ("ipc_server_port" :> default_ipc_server_port)
    @@ ("use_system_agent" :> default_use_system_agent)

\* The document sets a reserved field to a value that is not its default.
sets_reserved(doc) ==
    \E key \in DOMAIN reserved_defaults \cap DOMAIN doc : doc[key] # reserved_defaults[key]

\* The loop holds a .yml file that parsed into a document.
Collected == idx >= 1 /\ entry.ok /\ entry.path.ext = "yml" /\ entry.file.kind = "yaml"

InvalidParameterAt(path) == Fail([kind |-> "InvalidParameter", path |-> path])

\* C5: when the collected document the loop holds sets a reserved field to a
\* non-default value, load has failed with InvalidParameter carrying that
\* document's path; InvalidParameter never carries another path.
C5_RootOnlyFields ==
    /\ (Collected /\ sets_reserved(entry.file.doc))
          => result = InvalidParameterAt(entry.path.str)
    /\ (result.kind = "Err" /\ result.err.kind = "InvalidParameter")
          => /\ Collected
             /\ sets_reserved(entry.file.doc)
             /\ result.err.path = entry.path.str

\* The second document set a reserved field after a first one was registered.
C5_Witness ==
    /\ pc = "done"
    /\ Len(loaded) = 1
    /\ Collected
    /\ "log_level" \notin DOMAIN entry.file.doc
    /\ sets_reserved(entry.file.doc)
    /\ result = InvalidParameterAt(entry.path.str)
    /\ entry.path.str # loaded[1].path

(***************************************************************************)
(* C6.  Duplicate names.                                                   *)
(***************************************************************************)
\* The name of the document the loop holds: the one it declares, its path otherwise.
entry_name ==
    IF "name" \in DOMAIN entry.file.doc /\ entry.file.doc["name"] # "default"
    THEN entry.file.doc["name"] ELSE entry.path.str

\* A document registered before the one the loop holds has the same name.
NameTaken ==
    \E k \in 1..Len(loaded) : loaded[k].path # entry.path.str /\ loaded[k].name = entry_name

NameDuplicateAt(path) == Fail([kind |-> "NameDuplicate", path |-> path])

\* C6: when the valid document the loop holds resolves to the name of a document
\* registered before it, load has failed with NameDuplicate carrying the path of
\* the later document and returns no ConfigSet; NameDuplicate is returned in no
\* other case.
C6_NameDuplicate ==
    /\ (Collected /\ ~sets_reserved(entry.file.doc) /\ NameTaken)
          => result = NameDuplicateAt(entry.path.str)
    /\ (result.kind = "Err" /\ result.err.kind = "NameDuplicate")
          => /\ Collected
             /\ NameTaken
             /\ result.err.path = entry.path.str

\* A package document declared the name of a user document.
C6_Witness ==
    /\ pc = "done"
    /\ Len(loaded) = 1
    /\ loaded[1].tree = "user"
    /\ entry.tree = "package"
    /\ Collected
    /\ entry_name = "a"
    /\ result = NameDuplicateAt(entry.path.str)

(***************************************************************************)
(* C7.  Names are unique over the whole loaded set.                        *)
(***************************************************************************)
\* C7: when load returns a ConfigSet, the names of all loaded documents, the
\* default document included, are pairwise distinct.
C7_NamesUnique ==
    Returned =>
        \A j \in DocIds : \A k \in DocIds :
            j # k => doc_config(j).name # doc_config(k).name

(***************************************************************************)
(* C8.  Name defaulting.                                                   *)
(***************************************************************************)
\* The position in root_configs of root document k.
root_position(k) == CHOOSE i \in 1..Len(root_ids) : root_ids[i] = k

\* C8: a collected document that declares no name is registered under its path
\* string, which is the name of its entry of specific when it is a root; the
\* default document keeps the name it was parsed with.
C8_NameDefaulting ==
    root_configs # << >> =>
        /\ \A k \in 1..Len(loaded) :
              "name" \notin DOMAIN loaded[k].doc =>
                  IF "parent" \notin DOMAIN loaded[k].doc
                  THEN /\ root_configs[root_position(k)].name = loaded[k].path
                       /\ Returned => result.specific[root_position(k) - 1].name = loaded[k].path
                  ELSE \E j \in 1..Len(children_map[loaded[k].doc["parent"]]) :
                          /\ children_map[loaded[k].doc["parent"]][j].name = loaded[k].path
                          /\ children_map[loaded[k].doc["parent"]][j].matches
                                = Get(loaded[k].doc, "matches", default_matches)
        /\ root_configs[1].name \in {default_name} \cup DeclaredNames
        /\ Returned => result.default.name = root_configs[1].name

\* Two roots without a name were returned under their paths.
C8_Witness ==
    /\ Returned
    /\ Len(loaded) = 2
    /\ Len(result.specific) = 2
    /\ "name" \notin DOMAIN loaded[1].doc
    /\ "name" \notin DOMAIN loaded[2].doc
    /\ result.specific[1].name = "cfg/user/f1.yml"
    /\ result.specific[2].name = "pkg/f2.yml"
    /\ result.default.name = "default"

(***************************************************************************)
(* C9.  Extension filter.                                                  *)
(***************************************************************************)
\* C9: a step that takes an item whose extension is not exactly "yml" changes
\* nothing but the loop's position: the item is not loaded, whatever it holds.
C9_ExtensionFilter ==
    [][ (idx' = idx + 1 /\ entry'.ok /\ entry'.path.ext # "yml")
            => UNCHANGED <<pc, loaded, name_set, children_map, root_configs, configs, result>>
      ]_vars

\* A file named .YML that declares the name of a registered document was passed
\* over and load returned a ConfigSet.
C9_Witness ==
    /\ Returned
    /\ entry.ok
    /\ entry.path.ext = "YML"
    /\ entry.file.kind = "yaml"
    /\ Len(loaded) = 1
    /\ loaded[1].name = entry.file.doc["name"]
    /\ Len(result.specific) = 1

(***************************************************************************)
(* C10.  Result partition.                                                 *)
(***************************************************************************)
\* A config without its rules.
sans_rules(config) == [config EXCEPT !.matches = << >>]

\* C10: default is the default document with its tree's rules, whatever name
\* and parent it declares; specific holds one entry for every collected
\* document whose parent is "self", in the order they were encountered, user
\* tree before package tree; no other document is an entry of specific.
C10_ResultPartition ==
    Returned =>
        /\ sans_rules(result.default) = sans_rules(doc_config(0))
        /\ rule_set(result.default.matches) \subseteq authored_in_tree(1)
        /\ Len(result.specific)
              = Cardinality({k \in 1..Len(loaded) : doc_config(k).parent = "self"})
        /\ \A i \in 1..Len(result.specific) :
              /\ doc_config(root_ids[i + 1]).parent = "self"
              /\ sans_rules(result.specific[i]) = sans_rules(doc_config(root_ids[i + 1]))
              /\ \A j \in 1..(i - 1) :
                    /\ root_ids[j + 1] < root_ids[i + 1]
                    /\ ~(loaded[root_ids[j + 1]].tree = "package"
                         /\ loaded[root_ids[i + 1]].tree = "user")
        /\ \A k \in 1..Len(loaded) :
              doc_config(k).parent # "self" =>
                  \A i \in 1..Len(result.specific) : result.specific[i].name # doc_config(k).name

\* A user root and a package root were returned in that order.
C10_Witness ==
    /\ Returned
    /\ Len(result.specific) = 2
    /\ loaded[1].tree = "user"
    /\ loaded[2].tree = "package"
    /\ result.specific[1].name = loaded[1].name
    /\ result.specific[2].name = loaded[2].name

\* A default document that declares a name and a parent was returned as default.
C10_WitnessDefault ==
    /\ Returned
    /\ result.default.parent = "a"
    /\ Len(result.specific) = 1

(***************************************************************************)
(* C11.  Directory layout errors.                                          *)
(***************************************************************************)
\* load has not read or registered anything beyond default.yml.
NothingWalked ==
    /\ idx = 0
    /\ loaded = << >>
    /\ name_set = {}
    /\ children_map = << >>

\* C11: once load has moved, a base path that is missing or no directory has
\* given InvalidConfigDirectory, whatever else exists, and a base directory
\* without default.yml has given FileNotFound, in both cases with no file
\* loaded; when default.yml loads, a missing user subdirectory or package
\* directory yields no item and no error: an error then comes from an item of a
\* directory that exists, and with both missing load returns a ConfigSet with
\* no specific config.
C11_DirectoryLayout ==
    pc # "start" =>
        /\ fs.base # "dir" =>
              /\ result = Fail(Err("InvalidConfigDirectory"))
              /\ NothingWalked /\ root_configs = << >>
        /\ (fs.base = "dir" /\ fs.default = "noopen") =>
              /\ result = Fail(Err("FileNotFound"))
              /\ NothingWalked /\ root_configs = << >>
        /\ (fs.base = "dir" /\ fs.default = "yaml") =>
              /\ result.kind = "Err" => (idx >= 1 /\ entry.tree \in target_trees(fs))
              /\ idx >= 1 => entry.tree \in target_trees(fs)
              /\ (~fs.user /\ ~fs.package) =>
                    /\ NothingWalked
                    /\ pc \in {"scan", "reduce", "inject", "done"}
                    /\ pc = "done" => (Returned /\ result.specific = << >>)

\* The base path is a plain file while the package directory exists, and load
\* returned InvalidConfigDirectory.
C11_Witness ==
    /\ pc = "done"
    /\ fs.base = "file"
    /\ fs.package
    /\ result = Fail(Err("InvalidConfigDirectory"))

\* The base directory has a user subdirectory but no default.yml, and load
\* returned FileNotFound.
C11_WitnessNoDefault ==
    /\ pc = "done"
    /\ fs.base = "dir" /\ fs.user /\ fs.package
    /\ fs.default = "noopen"
    /\ result = Fail(Err("FileNotFound"))

\* Neither the user subdirectory nor the package directory exists, and load
\* returned the default alone.
C11_WitnessNoDirs ==
    /\ Returned
    /\ ~fs.user /\ ~fs.package
    /\ result.specific = << >>
    /\ result.default.matches # << >>

(***************************************************************************)
(* C12.  The first error aborts the load.                                  *)
(***************************************************************************)
NoError == [kind |-> "none"]

\* The error of the first check that fails on the file the loop holds, the
\* checks taken in the order load, parse, reserved fields, name.
first_error ==
    IF entry.file.kind = "noopen" THEN [kind |-> "FileNotFound"]
    ELSE IF entry.file.kind = "noread" THEN [kind |-> "UnableToReadFile"]
    ELSE IF entry.file.kind = "badyaml" THEN [kind |-> "InvalidYAML", path |-> entry.path.str]
    ELSE IF sets_reserved(entry.file.doc) THEN [kind |-> "InvalidParameter", path |-> entry.path.str]
    ELSE IF NameTaken THEN [kind |-> "NameDuplicate", path |-> entry.path.str]
    ELSE NoError

\* The error of default.yml.
default_error ==
    IF fs.default = "noopen" THEN [kind |-> "FileNotFound"]
    ELSE IF fs.default = "noread" THEN [kind |-> "UnableToReadFile"]
    ELSE IF fs.default = "badyaml" THEN [kind |-> "InvalidYAML", path |-> default_file.str]
    ELSE NoError

\* The state part of C12.
C12_State ==
    /\ (pc # "start" /\ fs.base = "dir" /\ default_error # NoError) =>
          (result = Fail(default_error) /\ NothingWalked /\ pc = "done")
    /\ (idx >= 1 /\ entry.ok /\ entry.path.ext = "yml") =>
          IF first_error # NoError
          THEN result = Fail(first_error) /\ pc = "done"
          ELSE result.kind # "Err"
    /\ result.kind = "Err" =>
          /\ pc = "done"
          /\ configs = << >>
          /\ idx >= 1 => (entry.ok /\ entry.path.ext = "yml" /\ first_error # NoError)
    /\ idx >= 1 => (root_configs # << >> /\ default_error = NoError)

\* The step part of C12: nothing follows a returned result, every item is taken
\* after default.yml was loaded and while no error was met, one at a time, and
\* no item of the user walk follows an item of the package walk.
C12_Step ==
    /\ pc # "done"
    /\ result = NoResult
    /\ idx' # idx =>
          /\ idx' = idx + 1
          /\ root_configs # << >>
          /\ (idx >= 1 /\ entry.tree = "package") => entry'.tree = "package"

\* C12: default.yml is processed first, then the user walk, then the package
\* walk, an item at a time; on every document the checks run in the order
\* load, parse, reserved fields, name; load returns the error of the first
\* check that fails, takes no step after it, and returns no ConfigSet.
C12_FirstErrorAborts == []C12_State /\ [][C12_Step]_vars

\* The second document sets a reserved field and declares the name of the
\* first: load returned InvalidParameter, not NameDuplicate.
C12_Witness ==
    /\ pc = "done"
    /\ Len(loaded) = 1
    /\ Collected
    /\ sets_reserved(entry.file.doc)
    /\ NameTaken
    /\ result = InvalidParameterAt(entry.path.str)

(***************************************************************************)
(* C13.  No cross-root merging.                                            *)
(***************************************************************************)
\* C13: in a returned ConfigSet every rule of default is declared by the default
\* document or a document below it; every rule of a specific config is declared
\* in that config's own tree or in the default's tree, so that a rule declared
\* only in another root's tree appears in neither; and default's rule list is
\* the one its reduction gave, untouched by the injection.
C13_NoCrossRoot ==
    Returned =>
        LET auth == [i \in 1..Len(root_configs) |-> authored_in_tree(i)]
            got == [i \in 1..Len(root_configs) |-> rule_set(resolved(i).matches)]
        IN  /\ result.default.matches = configs[1].matches
            /\ got[1] \subseteq auth[1]
            /\ \A i \in 2..Len(root_configs) : got[i] \subseteq auth[i] \cup auth[1]
            /\ \A i \in 1..Len(root_configs) : \A j \in 1..Len(root_configs) :
                  (auth[j] \ (auth[i] \cup auth[1])) \cap got[i] = {}

\* Two specific roots: the first declares a rule for "t2" that neither the
\* default nor the second root defines; it is in the first root's config only.
C13_Witness ==
    /\ Returned
    /\ Len(result.specific) = 2
    /\ "t2" \in trigger_set(doc_rules(1))
    /\ "t2" \notin trigger_set(doc_rules(0)) \cup trigger_set(doc_rules(2))
    /\ result.default.matches # << >>
    /\ "t2" \in trigger_set(result.specific[1].matches)
    /\ "t2" \notin trigger_set(result.default.matches)
    /\ "t2" \notin trigger_set(result.specific[2].matches)

(***************************************************************************)
(* C14.  Parent-reference cycle of two documents.                          *)
(***************************************************************************)
\* Collected documents j and k name each other as parent.
mutual(j, k) == j # k /\ child_of(j, k) /\ child_of(k, j)

MutualPairs == {p \in (1..Len(loaded)) \X (1..Len(loaded)) : mutual(p[1], p[2])}

\* The walk is over and no error was returned: the reduction ran, runs or hangs.
Reducing == pc \in {"inject", "overflow"} \/ Returned

\* The rules of a list that document k declares.
rules_by(matches, k) == {m \in rule_set(matches) : m.replace = doc_path(k)}

\* Some config of the returned ConfigSet holds a rule declared by document k.
appears(k) ==
    \/ rules_by(result.default.matches, k) # {}
    \/ \E i \in 1..Len(result.specific) : rules_by(result.specific[i].matches, k) # {}

\* C14 as claimed: when two collected documents name each other as parent,
\* load never returns a ConfigSet.
C14_Original == MutualPairs # {} => ~Returned

\* C14 as amended: two collected documents that name each other as parent are
\* registered without any error; when default.yml declares the name of one of
\* them, the reduction of the default reaches the cycle, recurses without bound
\* and load never returns; otherwise no reduction reaches either of them, and a
\* returned ConfigSet holds none of their rules.
C14_ParentCycle ==
    \A p \in MutualPairs :
        LET j == p[1]
            k == p[2]
            reached == doc_config(0).name \in {doc_config(j).name, doc_config(k).name}
        IN  /\ result.kind = "Err" => (idx > j /\ idx > k /\ first_error # NoError)
            /\ Reducing =>
                  IF reached
                  THEN pc = "overflow" /\ result = NoResult
                  ELSE /\ j \notin reduced_docs /\ k \notin reduced_docs
                       /\ pc = "overflow" => \E d \in reduced_docs : d \in desc_map[d]
                       /\ Returned => (~appears(j) /\ ~appears(k))

\* default.yml is named "a"; a user document named by its path has parent "a"
\* and the document named "a" has that path as parent: the reduction of the
\* default does not end.
C14_Witness ==
    /\ pc = "overflow"
    /\ Len(loaded) = 2
    /\ mutual(1, 2)
    /\ doc_config(0).name = "a"
    /\ doc_rules(1) # << >> /\ doc_rules(2) # << >>

\* The same two documents under a default.yml that declares no name: load
\* returned.
C14_WitnessReturned ==
    /\ Returned
    /\ Len(loaded) = 2
    /\ mutual(1, 2)
    /\ doc_config(0).name = "default"
    /\ doc_rules(1) # << >> /\ doc_rules(2) # << >>

(***************************************************************************)
(* C15.  Merge frame.  merge_config and merge_default are called on        *)
(* operands whose fields vary one at a time and all together.              *)
(***************************************************************************)
\* Documents that set one field, none, or all of them to a value that is not
\* the default; the reserved fields are among them, as default.yml may set them.
VariedDocs ==
    LET all == ("name" :> "a") @@ ("parent" :> "a") @@ ("filter_title" :> "x")
               @@ ("disabled" :> TRUE) @@ ("log_level" :> 1) @@ ("ipc_server_port" :> 34983)
               @@ ("use_system_agent" :> FALSE) @@ ("config_caching_interval" :> 10000)
               @@ ("toggle_key" :> "CTRL") @@ ("toggle_interval" :> 500)
               @@ ("backspace_limit" :> 5) @@ ("backend" :> "Inject")
               @@ ("exclude_default_matches" :> TRUE)
    IN  {<< >>, all} \cup {(k :> all[k]) : k \in DOMAIN all}

\* The Configs a merge is called on: a varied document with a rule list whose
\* rules name the operand.
MergeOperands(who) ==
    { [from_str(d) EXCEPT !.matches = rules_of([str |-> who], ts)] :
      d \in VariedDocs, ts \in TriggerLists }

\* A call of merge_config or merge_default: configs holds the receiver and the
\* config merged in, result the receiver after the call.
MergeInit ==
    /\ fs = [base |-> "dir", default |-> "yaml", user |-> FALSE, package |-> FALSE]
    /\ pc = "merge"
    /\ tree = "user"
    /\ idx = 0
    /\ entry = NoEntry
    /\ loaded = << >>
    /\ name_set = {}
    /\ children_map = << >>
    /\ root_configs = << >>
    /\ \E self \in MergeOperands("self"), other \in MergeOperands("other") :
          configs = <<self, other>>
    /\ result = NoResult

Merged(by, config) == [kind |-> by, config |-> config]

\* self.merge_config(new_config), lines 201-213.
MergeConfig ==
    /\ pc = "merge"
    /\ result' = Merged("merge_config", merge_config(configs[1], configs[2]))
    /\ pc' = "merged"
    /\ UNCHANGED <<fs, tree, idx, entry, loaded, name_set, children_map, root_configs, configs>>

\* self.merge_default(&default), lines 215-225.
MergeDefault ==
    /\ pc = "merge"
    /\ result' = Merged("merge_default", merge_default(configs[1], configs[2]))
    /\ pc' = "merged"
    /\ UNCHANGED <<fs, tree, idx, entry, loaded, name_set, children_map, root_configs, configs>>

MergeNext ==
    \/ MergeConfig
    \/ MergeDefault

SpecMerge == MergeInit /\ [][MergeNext]_vars

\* C15: after merge_config and after merge_default the receiver differs from
\* what it was in its rule list only: every other field has the value it had
\* before the call, whatever the config merged in sets for it.
C15_MergeFrame ==
    pc = "merged" =>
        /\ sans_rules(result.config) = sans_rules(configs[1])
        /\ \A f \in DOMAIN configs[1] \ {"matches"} : result.config[f] = configs[1][f]

\* merge_config gave a receiver with default fields the rules of a config that
\* sets every field: the list changed, the fields did not.
C15_Witness ==
    /\ pc = "merged"
    /\ result.kind = "merge_config"
    /\ \A f \in DOMAIN configs[1] \ {"matches"} : configs[2][f] # configs[1][f]
    /\ configs[2].matches # << >>
    /\ result.config.matches # configs[1].matches
    /\ result.config.backend = configs[1].backend

\* The same for merge_default.
C15_WitnessDefault ==
    /\ pc = "merged"
    /\ result.kind = "merge_default"
    /\ \A f \in DOMAIN configs[1] \ {"matches"} : configs[2][f] # configs[1][f]
    /\ result.config.matches # configs[1].matches
    /\ result.config.exclude_default_matches = configs[1].exclude_default_matches

(***************************************************************************)
(* C16.  Unresolved parents.                                               *)
(***************************************************************************)
\* The parent of collected document k is neither "self" nor the name of a
\* loaded document, default.yml included.
unresolved(k) ==
    /\ doc_config(k).parent # "self"
    /\ \A q \in DocIds : doc_config(q).name # doc_config(k).parent

\* The collected documents whose parent chain reaches no root.
Unattached == (1..Len(loaded)) \ reduced_docs

\* C16: a collected document whose parent is unresolved, and every document
\* whose parent chain reaches no root, is registered without error and never
\* attached: it makes no reduction recurse without end, it is no entry of
\* specific, and no config of the returned ConfigSet holds a rule it declares.
C16_UnresolvedParent ==
    LET desc == desc_map
        reduced == UNION {{root_ids[i]} \cup desc[root_ids[i]] : i \in 1..Len(root_ids)}
        unattached == (1..Len(loaded)) \ reduced
    IN  /\ \A k \in 1..Len(loaded) : unresolved(k) => k \in unattached
        /\ \A k \in unattached :
              /\ doc_config(k).parent # "self"
              /\ result.kind = "Err" => (first_error # NoError /\ entry.path.str # doc_path(k))
              /\ Returned =>
                    /\ ~appears(k)
                    /\ \A i \in 1..Len(result.specific) :
                          result.specific[i].name # doc_config(k).name
        /\ pc = "overflow" => \E d \in reduced : d \in desc[d]

\* A document with a rule names a parent nobody bears, and a second document
\* with a rule names the first as parent: load returned the default's rules only.
C16_Witness ==
    /\ Returned
    /\ Len(loaded) = 2
    /\ unresolved(1)
    /\ child_of(2, 1)
    /\ doc_rules(1) # << >> /\ doc_rules(2) # << >>
    /\ result.default.matches # << >>
    /\ result.default.matches = doc_rules(0)
    /\ result.specific = << >>

(***************************************************************************)
(* C17.  The validator.  validate_user_defined_config is called on configs *)
(* that set any subset of the reserved fields.                             *)
(***************************************************************************)
\* A value other than the default for every reserved field.
reserved_values ==
    ("config_caching_interval" :> 10000) @@ ("log_level" :> 1) @@ ("toggle_key" :> "CTRL")
    @@ ("toggle_interval" :> 500) @@ ("backspace_limit" :> 5)
    @@ ("ipc_server_port" :> 34983) @@ ("use_system_agent" :> FALSE)

\* Documents that set the fields no validation looks at, or none of them.
OrdinaryDocs ==
    { << >>,
      ("name" :> "a") @@ ("parent" :> "a") @@ ("filter_title" :> "x") @@ ("disabled" :> TRUE)
        @@ ("backend" :> "Inject") @@ ("exclude_default_matches" :> TRUE)
        @@ ("matches" :> rules_of(default_file, <<"t1">>)) }

\* The configs the validator is called on.
ValidateOperands ==
    { from_str([k \in S |-> reserved_values[k]] @@ d) :
      S \in SUBSET DOMAIN reserved_values, d \in OrdinaryDocs }

\* A call of validate_user_defined_config: configs holds the config, result
\* what the call returns and what it logs.
ValidateInit ==
    /\ fs = [base |-> "dir", default |-> "yaml", user |-> FALSE, package |-> FALSE]
    /\ pc = "validate"
    /\ tree = "user"
    /\ idx = 0
    /\ entry = NoEntry
    /\ loaded = << >>
    /\ name_set = {}
    /\ children_map = << >>
    /\ root_configs = << >>
    /\ \E self \in ValidateOperands : configs = <<self>>
    /\ result = NoResult

\* self.validate_user_defined_config(), lines 138-150.
Validate ==
    /\ pc = "validate"
    /\ result' = [kind |-> "validated",
                  value |-> validate_user_defined_config(configs[1]),
                  errors |-> validation_errors(configs[1])]
    /\ pc' = "validated"
    /\ UNCHANGED <<fs, tree, idx, entry, loaded, name_set, children_map, root_configs, configs>>

ValidateNext == Validate

SpecValidate == ValidateInit /\ [][ValidateNext]_vars

\* The defaults of the reserved fields as the documentation gives them, in the
\* order the validator takes the fields.
documented_defaults ==
    << <<"config_caching_interval", 800>>, <<"log_level", 0>>,
       <<"toggle_key", KeyModifier_default>>, <<"toggle_interval", 230>>,
       <<"backspace_limit", 3>>, <<"ipc_server_port", 34982>>,
       <<"use_system_agent", TRUE>> >>

\* The reserved fields of a config that differ from the documented default, in
\* the order the validator takes them.
culprits(config) ==
    LET differs(d) == config[d[1]] # d[2]
        RECURSIVE names(_)
        names(ds) == IF ds = << >> THEN << >> ELSE <<Head(ds)[1]>> \o names(Tail(ds))
    IN  names(SelectSeq(documented_defaults, differs))

\* C17: validate_user_defined_config returns true exactly when all seven
\* reserved fields have their documented default; it reports every reserved
\* field that differs, not only the first, so that a mismatch followed by
\* matching fields still gives false; the other fields have no part in it.
C17_Validator ==
    pc = "validated" =>
        /\ result.value = (culprits(configs[1]) = << >>)
        /\ result.errors = culprits(configs[1])
        /\ \A other \in ValidateOperands :
              (\A i \in 1..Len(documented_defaults) :
                  other[documented_defaults[i][1]] = configs[1][documented_defaults[i][1]])
              => validate_user_defined_config(other) = result.value

\* The first and the sixth reserved field differ, the last one and the others
\* match, and the ordinary fields are set: false, with both fields reported.
C17_Witness ==
    /\ pc = "validated"
    /\ configs[1].config_caching_interval # 800
    /\ configs[1].ipc_server_port # 34982
    /\ configs[1].use_system_agent = TRUE
    /\ configs[1].backend = "Inject"
    /\ result.value = FALSE
    /\ result.errors = <<"config_caching_interval", "ipc_server_port">>

\* No reserved field differs while the ordinary fields are set: true.
C17_WitnessTrue ==
    /\ pc = "validated"
    /\ configs[1].backend = "Inject"
    /\ configs[1].name = "a"
    /\ result.value = TRUE
    /\ result.errors = << >>

(***************************************************************************)
(* The load over a user directory of valid documents only, which leaves    *)
(* room for MaxRegistered of them: default.yml is loaded, every file       *)
(* passes the checks of lines 270-289 and is registered, and the trees     *)
(* are reduced and returned as in Spec.                                    *)
(***************************************************************************)
\* The k-th user file of such a walk.
deep_path(k) == MkPath(specific_dir, "f" \o ToString(k), "yml")

\* What the k-th file may hold: it declares no name (the first one may declare
\* "a"), is a root or names as parent the default, "a" or the second file, and
\* declares one rule.
DeepDocs(k) ==
    { Field("name", n # "", n) @@ Field("parent", p # "self", p)
        @@ ("matches" :> rules_of(deep_path(k), <<t>>)) :
      n \in (IF k = 1 THEN {"", "a"} ELSE {""}),
      p \in {"self", "default", "a", deep_path(2).str},
      t \in Triggers }

\* What default.yml may hold in such a load.
DeepDefaultDocs ==
    { Field("name", n # "", n) @@ Field("matches", ts # << >>, rules_of(default_file, ts)) :
      n \in {"", "a"}, ts \in {<< >>, <<"t1">>} }

\* The item of the k-th file.
deep_entry(k, d) == [tree |-> "user", ok |-> TRUE, path |-> deep_path(k), file |-> Yaml(d)]

\* Lines 241-264 done: default.yml is loaded and is the first root.
DeepInit ==
    /\ fs = [base |-> "dir", default |-> "yaml", user |-> TRUE, package |-> FALSE]
    /\ pc = "scan"
    /\ tree = "user"
    /\ idx = 0
    /\ entry = NoEntry
    /\ loaded = << >>
    /\ name_set = {}
    /\ children_map = << >>
    /\ \E d \in DeepDefaultDocs : root_configs = <<load_config(default_file, Yaml(d)).config>>
    /\ configs = << >>
    /\ result = NoResult

\* Lines 266-298 on a document that passes the checks: it is registered as a
\* root or as a child.
DeepRegister ==
    /\ pc = "scan"
    /\ idx < MaxRegistered
    /\ \E d \in DeepDocs(idx + 1) :
          LET e == deep_entry(idx + 1, d)
              config == config_of(e)
          IN  /\ NextEntry(e)
              /\ Accepted(e)
              /\ config.name \notin name_set
              /\ name_set' = insert_name(name_set, config.name)
              /\ root_configs' = IF config.parent = "self"
                                  THEN push_root(root_configs, config) ELSE root_configs
              /\ children_map' = IF config.parent = "self" THEN children_map
                                  ELSE push_child(children_map, config.parent, config)
              /\ loaded' = Append(loaded, loaded_doc(e, config.name))
    /\ UNCHANGED <<fs, pc, configs, result>>

DeepNext ==
    \/ DeepRegister
    \/ EndOfWalk
    \/ ReduceRoots
    \/ ReduceOverflows
    \/ SeparateAndInject

SpecDeep == DeepInit /\ [][DeepNext]_vars

(***************************************************************************)
(* C18.  Sibling priority.                                                 *)
(***************************************************************************)
\* c1 and c2 are children of p, c1 registered before c2.
siblings(c1, c2, p) == c1 < c2 /\ child_of(c1, p) /\ child_of(c2, p)

\* What reduce_configs makes of document p.
resolved_doc(p) == reduce_configs(doc_config(p), children_map).config

\* The triggers defined in the tree of document c: by c or by a document below it.
tree_triggers(c) == UNION {triggers_map[d] : d \in {c} \cup desc_map[c]}

\* C18 as claimed: when two children of a parent both define a rule for trigger
\* t, the rules for t the resolved parent keeps are the later child's.
C18_Original ==
    Returned =>
        \A p \in reduced_docs : \A c1 \in DocIds : \A c2 \in DocIds :
            siblings(c1, c2, p) =>
                \A t \in triggers_map[c1] \cap triggers_map[c2] :
                    LET kept == rules_for(resolved_doc(p).matches, t)
                    IN  /\ Len(kept) >= 1
                        /\ \A j \in 1..Len(kept) : kept[j].replace = doc_path(c2)

\* C18 as amended: when two children of a parent both define a rule for trigger
\* t, the resolved parent keeps a rule for t and none of the earlier child's
\* rules for t; when the later child defines t once, no document below it
\* defines t, and no child registered after it defines t in its tree, the
\* resolved parent keeps exactly one rule for t, the later child's.
C18_SiblingPriority ==
    Returned =>
        \A p \in reduced_docs : \A c1 \in DocIds : \A c2 \in DocIds :
            siblings(c1, c2, p) =>
                \A t \in triggers_map[c1] \cap triggers_map[c2] :
                    LET kept == rules_for(resolved_doc(p).matches, t)
                    IN  /\ Len(kept) >= 1
                        /\ \A j \in 1..Len(kept) : kept[j].replace # doc_path(c1)
                        /\ ( /\ Len(rules_for(doc_rules(c2), t)) = 1
                             /\ \A g \in desc_map[c2] : t \notin triggers_map[g]
                             /\ \A c3 \in DocIds :
                                   siblings(c2, c3, p) => t \notin tree_triggers(c3) )
                           => /\ Len(kept) = 1
                              /\ kept[1].replace = doc_path(c2)

\* The first two files are children of the default and define "t1", the third
\* is a child of the second and defines "t2": the default's rule for "t1" is
\* the second file's.
C18_Witness ==
    /\ Returned
    /\ Len(loaded) = 3
    /\ siblings(1, 2, 0)
    /\ child_of(3, 2)
    /\ triggers_map[1] = {"t1"} /\ triggers_map[2] = {"t1"} /\ triggers_map[3] = {"t2"}
    /\ "t1" \in triggers_map[0]
    /\ Len(rules_for(result.default.matches, "t1")) = 1
    /\ rules_for(result.default.matches, "t1")[1].replace = doc_path(2)

(***************************************************************************)
(* C19.  Trigger uniqueness is preserved.                                  *)
(***************************************************************************)
\* No two rules of the list have the same trigger.
distinct_triggers(matches) ==
    \A i \in 1..Len(matches) : \A j \in 1..Len(matches) :
        i # j => matches[i].trigger # matches[j].trigger

\* C19: when the own rule list of every loaded document, default.yml included,
\* has pairwise distinct triggers, so has every list the reductions produce
\* and every list of the returned ConfigSet.
C19_TriggersUnique ==
    (pc \in {"inject", "done"} /\ result.kind # "Err"
        /\ \A k \in DocIds : distinct_triggers(doc_rules(k)))
    => /\ \A i \in 1..Len(configs) : distinct_triggers(configs[i].matches)
       /\ Returned =>
             /\ distinct_triggers(result.default.matches)
             /\ \A i \in 1..Len(result.specific) :
                   distinct_triggers(result.specific[i].matches)

\* The default and its child both define "t1" and "t2" and a specific root
\* defines "t1": every returned list has its two triggers once.
C19_Witness ==
    /\ Returned
    /\ Len(loaded) = 2
    /\ \A k \in DocIds : distinct_triggers(doc_rules(k))
    /\ triggers_map[0] = {"t1", "t2"}
    /\ \E c \in 1..2 : child_of(c, 0) /\ triggers_map[c] = {"t1", "t2"}
    /\ Len(result.specific) = 1
    /\ Len(result.default.matches) = 2
    /\ Len(result.specific[1].matches) = 2
    /\ result.specific[1].matches[1].replace # result.specific[1].matches[2].replace

(***************************************************************************)
(* C20.  Termination.                                                      *)
(***************************************************************************)
\* C20: whatever the documents are, every reduce_configs recursion started from
\* a root is finite, so that load returns a ConfigSet or an error.
C20_Termination == pc # "overflow"

====
